---------------------------- MODULE Spec2Model ----------------------------
(***************************************************************************)
(* A model of XReflection's base training module                           *)
(* (xreflection/models/base_model.py, class BaseModel) and of its          *)
(* dataset/loader builder (xreflection/data/__init__.py).                  *)
(*                                                                         *)
(* Python values are modelled as follows.  A dict is a function whose      *)
(* DOMAIN is its key set, except where the insertion order of the dict is  *)
(* observable (the weight mapping of load_weights), where it is a sequence *)
(* of <<key, value>> pairs.  A str that the code slices or concatenates is *)
(* a sequence of one-character strings; a str that is only compared is a   *)
(* TLA+ string.  A call that raises is the record Raise(exc, msg).         *)
(***************************************************************************)
EXTENDS Integers, Sequences, FiniteSets, TLC

VARIABLES
    pc,                   \* position of the modelled process in its run
    opt,                  \* self.opt / dataset_opt: the configuration record
    args,                 \* what the environment hands to the call under study
    ret,                  \* outcome of the last call: return value or raise
    net_g,                \* self.net_g.state_dict(): key -> tensor
    trainer,              \* the attributes of self.trainer the code reads
    val_dataloaders,      \* self.trainer.val_dataloaders
    val_dataset_names,    \* self.val_dataset_names: dataloader index -> name
    current_val_metrics,  \* self.current_val_metrics: name -> metric -> list
    workers               \* loader worker id -> outcome of its worker_init_fn

vars == <<pc, opt, args, ret, net_g, trainer, val_dataloaders,
          val_dataset_names, current_val_metrics, workers>>

-----------------------------------------------------------------------------
(* Python helpers *)

\* dict.get(k, default)
Get(d, k, default) == IF k \in DOMAIN d THEN d[k] ELSE default

\* a raised exception, with the parts of its message
Raise(exc, msg) == [kind |-> "raise", exc |-> exc, msg |-> msg]

\* a normal return
Return(v) == [kind |-> "return", value |-> v]

\* the state of the variables no call of a run has touched yet
NoCall == [kind |-> "none", op |-> "none"]

-----------------------------------------------------------------------------
(* BaseModel.get_optimizer / BaseModel.configure_optimizers *)

\* the optimizer classes of the if/elif chain of get_optimizer
OptimizerTypes == {"Adam", "AdamW", "Adamax", "SGD", "ASGD", "RMSprop", "Rprop"}

\* step decay at milestones: the type names of the first branch
MultiStepNames == {"MultiStepLR", "MultiStepRestartLR"}

\* cosine annealing: the type name of the second branch
CosineNames == {"CosineAnnealingRestartLR"}

get_optimizer(optim_type, params, kwargs) ==
    IF optim_type \in OptimizerTypes
    THEN Return([cls |-> optim_type, params |-> params, kwargs |-> kwargs])
    ELSE Raise("NotImplementedError",
               <<"optimizer ", optim_type, " is not supported yet.">>)

\* the scheduler built for a type name, "none" when no branch takes it
MutSchedulerClass(scheduler_type) ==
    IF scheduler_type \in MultiStepNames \cup CosineNames
    THEN "MultiStepLR"
    ELSE "none"

SchedulerClass(scheduler_type) ==
    IF scheduler_type \in MultiStepNames THEN "MultiStepLR"
    ELSE IF scheduler_type \in CosineNames THEN "CosineAnnealingLR"
    ELSE "none"

\* o is self.opt, hook is what configure_optimizer_params() returned
configure_optimizers(o, hook) ==
    LET train_opt == o.train
        kwargs == [k \in DOMAIN hook \ {"optim_type", "params"} |-> hook[k]]
        optimizer == get_optimizer(hook.optim_type, hook.params, kwargs)
        scheduler_type == train_opt.scheduler.type
        scheduler_config ==
            [k \in DOMAIN train_opt.scheduler \ {"type"} |-> train_opt.scheduler[k]]
        monitor_metric == Get(Get(o, "checkpoint", <<>>), "monitor", "val/psnr")
    IN  IF optimizer.kind = "raise" THEN optimizer
        ELSE IF SchedulerClass(scheduler_type) = "none"
        THEN Raise("NotImplementedError",
                   <<"Scheduler ", scheduler_type, " is not implemented yet.">>)
        ELSE Return([optimizer |-> optimizer.value,
                     lr_scheduler |->
                        [scheduler |-> [cls |-> SchedulerClass(scheduler_type),
                                        optimizer |-> optimizer.value,
                                        config |-> scheduler_config],
                         monitor |-> monitor_metric,
                         interval |-> "epoch",
                         frequency |-> 1]])

\* the scheduler type names a configuration may carry
SchedulerTypes ==
    MultiStepNames \cup CosineNames \cup {"CosineAnnealingLR", "StepLR"}

\* the scheduler sections of a configuration
SchedulerOpts ==
    {[type |-> t, milestones |-> <<2, 4>>, gamma |-> 5] : t \in MultiStepNames}
    \cup {[type |-> t, T_max |-> 4] : t \in SchedulerTypes \ MultiStepNames}

\* the configurations handed to configure_optimizers
OptimOpts ==
    {[train |-> [scheduler |-> s]] : s \in SchedulerOpts}
    \cup {[train |-> [scheduler |-> s], checkpoint |-> c] :
            s \in SchedulerOpts,
            c \in {<<>>, [monitor |-> "metrics/average/psnr"]}}

\* what a model's configure_optimizer_params returns
OptimHooks ==
    {[optim_type |-> t, params |-> "parameters", lr |-> 1] :
        t \in OptimizerTypes \cup {"LBFGS"}}

\* the part of the state the run of one specification does not use
IdleModel ==
    /\ net_g = <<>>
    /\ trainer = <<>>
    /\ val_dataloaders = <<>>
    /\ val_dataset_names = <<>>
    /\ current_val_metrics = <<>>
    /\ workers = <<>>

InitOptim ==
    /\ pc = "configure"
    /\ opt \in OptimOpts
    /\ args \in {[optimizer_params |-> h] : h \in OptimHooks}
    /\ ret = NoCall
    /\ IdleModel

ConfigureOptimizers ==
    /\ pc = "configure"
    /\ ret' = configure_optimizers(opt, args.optimizer_params)
    /\ pc' = "done"
    /\ UNCHANGED <<opt, args, net_g, trainer, val_dataloaders,
                   val_dataset_names, current_val_metrics, workers>>

NextOptim == ConfigureOptimizers

SpecOptim == InitOptim /\ [][NextOptim]_vars

-----------------------------------------------------------------------------
(* Python values whose type decides what an operator does *)

PyInt(i) == [t |-> "int", v |-> i]
PyStr(s) == [t |-> "str", v |-> s]
PyNone == [t |-> "NoneType"]
PyTypeError == [t |-> "TypeError"]

\* s repeated n times
RECURSIVE Repeat(_, _)
Repeat(s, n) == IF n <= 0 THEN <<>> ELSE s \o Repeat(s, n - 1)

\* a * b
PyMul(a, b) ==
    IF a.t = "int" /\ b.t = "int" THEN PyInt(a.v * b.v)
    ELSE IF a.t = "int" /\ b.t = "str" THEN PyStr(Repeat(b.v, a.v))
    ELSE IF a.t = "str" /\ b.t = "int" THEN PyStr(Repeat(a.v, b.v))
    ELSE PyTypeError

\* a + b
PyAdd(a, b) ==
    IF a.t = "int" /\ b.t = "int" THEN PyInt(a.v + b.v)
    ELSE IF a.t = "str" /\ b.t = "str" THEN PyStr(a.v \o b.v)
    ELSE PyTypeError

-----------------------------------------------------------------------------
(* xreflection/data/__init__.py: build_dataloader, worker_init_fn *)

\* os.environ.get('RANK', 0)
EnvironRank(environ) ==
    IF "RANK" \in DOMAIN environ THEN PyStr(environ["RANK"]) ELSE PyInt(0)

\* worker_seed = num_workers * rank + worker_id + seed
WorkerSeed(worker_id, num_workers, rank, seed) ==
    PyAdd(PyAdd(PyMul(num_workers, rank), PyInt(worker_id)), seed)

\* what one worker process is left with
worker_init_fn(worker_id, num_workers, rank, seed) ==
    LET worker_seed == WorkerSeed(worker_id, num_workers, rank, seed)
    IN  IF worker_seed.t = "int"
        THEN Return([np_random_seed |-> worker_seed.v,
                     random_seed |-> worker_seed.v])
        ELSE Raise("TypeError", <<"worker_seed">>)

\* the train branch with the shuffle flag left on under a sampler
MutTrainArgs(dataset, dataset_opt, seed, sampler, rank) ==
    [dataset |-> dataset,
     batch_size |-> dataset_opt["batch_size_per_gpu"],
     shuffle |-> TRUE,
     num_workers |-> dataset_opt["num_worker_per_gpu"],
     sampler |-> sampler,
     drop_last |-> TRUE,
     phase |-> dataset_opt["phase"],
     worker_init_fn |-> [num_workers |-> PyInt(dataset_opt["num_worker_per_gpu"]),
                         rank |-> rank, seed |-> seed]]

\* dataloader_args of the train branch
TrainArgs(dataset, dataset_opt, seed, sampler, rank) ==
    LET batch_size == dataset_opt["batch_size_per_gpu"]
        num_workers == dataset_opt["num_worker_per_gpu"]
    IN  [dataset |-> dataset,
         batch_size |-> batch_size,
         shuffle |-> IF sampler = "None" THEN TRUE ELSE FALSE,
         num_workers |-> num_workers,
         sampler |-> sampler,
         drop_last |-> TRUE,
         phase |-> dataset_opt["phase"],
         worker_init_fn |-> [num_workers |-> PyInt(num_workers),
                             rank |-> rank, seed |-> seed]]

\* dataloader_args of the val/test branch
ValArgs(dataset, dataset_opt) ==
    [dataset |-> dataset,
     batch_size |-> 1,
     shuffle |-> Get(dataset_opt, "use_shuffle", FALSE),
     num_workers |-> 0]

\* pin_memory, persistent_workers and the choice of the loader class
FinishLoader(dataloader_args, dataset_opt) ==
    LET a == [k \in DOMAIN dataloader_args
                    \cup {"pin_memory", "persistent_workers"} |->
                IF k = "pin_memory" THEN Get(dataset_opt, "pin_memory", FALSE)
                ELSE IF k = "persistent_workers"
                     THEN Get(dataset_opt, "persistent_workers", FALSE)
                ELSE dataloader_args[k]]
        prefetch_mode == Get(dataset_opt, "prefetch_mode", "None")
    IN  IF prefetch_mode = "cpu"
        THEN Return([cls |-> "PrefetchDataLoader",
                     num_prefetch_queue |->
                         Get(dataset_opt, "num_prefetch_queue", 1),
                     kwargs |-> a])
        ELSE Return([cls |-> "DataLoader", kwargs |-> a])

build_dataloader(dataset, dataset_opt, seed, sampler, environ) ==
    LET phase == dataset_opt["phase"]
        rank == EnvironRank(environ)
    IN  IF phase = "train"
        THEN FinishLoader(TrainArgs(dataset, dataset_opt, seed, sampler, rank),
                          dataset_opt)
        ELSE IF phase \in {"val", "test"}
        THEN FinishLoader(ValArgs(dataset, dataset_opt), dataset_opt)
        ELSE Raise("ValueError",
                   <<"Wrong dataset phase: ", phase,
                     ". Supported ones are 'train', 'val' and 'test'.">>)

\* torch.utils.data.DataLoader's defaults for the arguments a branch omits
LoaderArg(loader, k) ==
    IF k \in DOMAIN loader.kwargs THEN loader.kwargs[k]
    ELSE IF k = "drop_last" THEN FALSE
    ELSE "None"

\* the most worker processes a configuration asks for
MaxWorkers == 2

\* the seeds handed to build_dataloader: its default and two integers
Seeds == {PyNone, PyInt(0), PyInt(7)}

\* the optional keys of a dataset configuration
DataOptional ==
    {f \in [{"use_shuffle", "pin_memory", "prefetch_mode"} ->
                {"absent", "on", "off"}] : f["pin_memory"] # "off"}

\* the dataset configurations handed to build_dataloader
DataOpts ==
    {LET base == [phase |-> p, batch_size_per_gpu |-> b, num_worker_per_gpu |-> n]
         keys == {"phase", "batch_size_per_gpu", "num_worker_per_gpu"}
                 \cup {k \in DOMAIN f : f[k] # "absent"}
     IN  [k \in keys |->
            IF k \in DOMAIN base THEN base[k]
            ELSE IF k = "prefetch_mode"
                 THEN (IF f[k] = "on" THEN "cpu" ELSE "cuda")
            ELSE f[k] = "on"] :
        p \in {"train", "val", "test", "predict"},
        b \in {1, 4},
        n \in 0..MaxWorkers,
        f \in DataOptional}

\* the process environment: RANK unset, or exported as text
Environs == {<<>>, [RANK |-> <<"0">>], [RANK |-> <<"1">>]}

InitData ==
    /\ pc = "build"
    /\ opt \in DataOpts
    /\ args \in [dataset : {"dataset"}, seed : Seeds,
                 sampler : {"None", "sampler"}, environ : Environs]
    /\ ret = NoCall
    /\ IdleModel

BuildDataloader ==
    /\ pc = "build"
    /\ ret' = build_dataloader(args.dataset, opt, args.seed, args.sampler,
                               args.environ)
    /\ pc' = "built"
    /\ UNCHANGED <<opt, args, net_g, trainer, val_dataloaders,
                   val_dataset_names, current_val_metrics, workers>>

\* the loader starts worker process worker_id, which runs its worker_init_fn
WorkerInit(worker_id) ==
    /\ pc = "built"
    /\ ret.kind = "return"
    /\ worker_id \notin DOMAIN workers
    /\ worker_id < LoaderArg(ret.value, "num_workers")
    /\ "worker_init_fn" \in DOMAIN ret.value.kwargs
    /\ LET f == ret.value.kwargs["worker_init_fn"]
       IN  workers' = [w \in DOMAIN workers \cup {worker_id} |->
                         IF w = worker_id
                         THEN worker_init_fn(worker_id, f.num_workers,
                                             f.rank, f.seed)
                         ELSE workers[w]]
    /\ UNCHANGED <<pc, opt, args, ret, net_g, trainer, val_dataloaders,
                   val_dataset_names, current_val_metrics>>

NextData ==
    \/ BuildDataloader
    \/ \E worker_id \in 0..(MaxWorkers - 1) : WorkerInit(worker_id)

SpecData == InitData /\ [][NextData]_vars

-----------------------------------------------------------------------------
(* str and dict operations of load_weights *)

\* '_orig_mod.', 'module.', '.ignore', 'params', 'params_ema'
S_orig_mod == <<"_", "o", "r", "i", "g", "_", "m", "o", "d", ".">>
S_module == <<"m", "o", "d", "u", "l", "e", ".">>
S_ignore == <<".", "i", "g", "n", "o", "r", "e">>
S_params == <<"p", "a", "r", "a", "m", "s">>
S_params_ema == <<"p", "a", "r", "a", "m", "s", "_", "e", "m", "a">>

\* k.startswith(prefix)
startswith(k, prefix) ==
    Len(k) >= Len(prefix) /\ SubSeq(k, 1, Len(prefix)) = prefix

\* k[n:]
SliceFrom(k, n) == SubSeq(k, n + 1, Len(k))

\* an insertion-ordered dict is a sequence of <<key, value>> with distinct keys
Keys(d) == {d[i][1] : i \in DOMAIN d}

\* d[k]
Lookup(d, k) == LET i == CHOOSE j \in DOMAIN d : d[j][1] = k IN d[i][2]

\* d without k, as d.pop(k) leaves it
Pop(d, k) == SelectSeq(d, LAMBDA e : e[1] # k)

\* d[k] = v: an existing key keeps its place, a new key goes last
SetItem(d, k, v) ==
    IF k \in Keys(d)
    THEN [i \in DOMAIN d |-> IF d[i][1] = k THEN <<k, v>> ELSE d[i]]
    ELSE Append(d, <<k, v>>)

-----------------------------------------------------------------------------
(* BaseModel.load_weights *)

\* the fallbacks tried with the primary snapshot before the EMA snapshot
MutSelectWeights(checkpoint, param_key) ==
    IF param_key \in Keys(checkpoint)
    THEN [branch |-> "param_key", weights |-> Lookup(checkpoint, param_key)]
    ELSE IF S_params \in Keys(checkpoint) /\ param_key # S_params
    THEN [branch |-> "params", weights |-> Lookup(checkpoint, S_params)]
    ELSE IF S_params_ema \in Keys(checkpoint) /\ param_key # S_params_ema
    THEN [branch |-> "params_ema", weights |-> Lookup(checkpoint, S_params_ema)]
    ELSE [branch |-> "checkpoint", weights |-> checkpoint]

\* the if/elif chain that picks the weight mapping out of the checkpoint
SelectWeights(checkpoint, param_key) ==
    IF param_key \in Keys(checkpoint)
    THEN [branch |-> "param_key", weights |-> Lookup(checkpoint, param_key)]
    ELSE IF S_params_ema \in Keys(checkpoint) /\ param_key # S_params_ema
    THEN [branch |-> "params_ema", weights |-> Lookup(checkpoint, S_params_ema)]
    ELSE IF S_params \in Keys(checkpoint) /\ param_key # S_params
    THEN [branch |-> "params", weights |-> Lookup(checkpoint, S_params)]
    ELSE [branch |-> "checkpoint", weights |-> checkpoint]

\* for k, v in list(weights.items()):
\*     if k.startswith(prefix): weights[k[n:]] = weights.pop(k)
\* items is what is left of the list taken before the loop
RECURSIVE StripLoop(_, _, _, _)
StripLoop(items, weights, prefix, n) ==
    IF items = <<>> THEN weights
    ELSE LET k == Head(items)[1]
         IN  IF startswith(k, prefix)
             THEN LET popped == Lookup(weights, k)
                  IN  StripLoop(Tail(items),
                                SetItem(Pop(weights, k), SliceFrom(k, n), popped),
                                prefix, n)
             ELSE StripLoop(Tail(items), weights, prefix, n)

\* the two loops of load_weights, '_orig_mod.' first and 'module.' second
StripPrefixes(weights) ==
    LET compiled == StripLoop(weights, weights, S_orig_mod, 10)
    IN  StripLoop(compiled, compiled, S_module, 7)

\* the loop over common_keys, taken in the order the set iterates
RECURSIVE IgnoreLoop(_, _, _)
IgnoreLoop(order, crt_net, load_net) ==
    IF order = <<>> THEN load_net
    ELSE LET k == Head(order)
         IN  IF crt_net[k].shape # Lookup(load_net, k).shape
             THEN LET popped == Lookup(load_net, k)
                  IN  IgnoreLoop(Tail(order), crt_net,
                                 SetItem(Pop(load_net, k), k \o S_ignore, popped))
             ELSE IgnoreLoop(Tail(order), crt_net, load_net)

\* _print_different_keys_loading under @rank_zero_only: the body runs on
\* rank 0 only; what it returns is load_net as the call leaves it
PrintDifferentKeysLoading(crt_net, load_net, strict, rank, order) ==
    IF rank # 0 THEN load_net
    ELSE IF ~strict THEN IgnoreLoop(order, crt_net, load_net)
    ELSE load_net

\* torch's Module.load_state_dict: every tensor of a key of the module with the
\* module's shape is copied in; then a size mismatch, and under strict a
\* missing or unexpected key, raises RuntimeError
load_state_dict(crt_net, state_dict, strict) ==
    LET common == DOMAIN crt_net \cap Keys(state_dict)
        fits(k) == crt_net[k].shape = Lookup(state_dict, k).shape
        loaded == [k \in DOMAIN crt_net |->
                     IF k \in common /\ fits(k)
                     THEN Lookup(state_dict, k) ELSE crt_net[k]]
        mismatch == {k \in common : ~fits(k)}
        bad_keys == DOMAIN crt_net # Keys(state_dict)
    IN  [net |-> loaded,
         result |-> IF mismatch # {} \/ (strict /\ bad_keys)
                    THEN Raise("RuntimeError", <<"load_state_dict">>)
                    ELSE Return("None")]

\* the orders in which a set can iterate
Orders(S) ==
    {o \in [1..Cardinality(S) -> S] : \A i, j \in DOMAIN o : i # j => o[i] # o[j]}

\* file is what torch.load finds at load_path; order is the iteration order
\* of common_keys.  log holds the values of the locals of the call: the branch
\* taken, weights as selected, weights as stripped, and the mapping handed to
\* load_state_dict
load_weights(o, file, rank, crt_net, order) ==
    LET param_key == Get(o.path, "param_key_g", S_params)
        strict_load == Get(o.path, "strict_load_g", TRUE)
    IN  IF ~file.exists
        THEN [net |-> crt_net,
              log |-> <<>>,
              result |-> Raise("FileNotFoundError", <<o.path.pretrain_network_g>>)]
        ELSE LET sel == SelectWeights(file.checkpoint, param_key)
                 stripped == StripPrefixes(sel.weights)
                 handed == PrintDifferentKeysLoading(crt_net, stripped,
                                                     strict_load, rank, order)
                 applied == load_state_dict(crt_net, handed, strict_load)
             IN  [net |-> applied.net,
                  log |-> [branch |-> sel.branch,
                           selected |-> sel.weights,
                           stripped |-> stripped,
                           state_dict |-> handed],
                  result |-> applied.result]

\* the common keys whose order of iteration load_weights depends on
CommonKeys(o, file, crt_net) ==
    IF ~file.exists THEN {}
    ELSE DOMAIN crt_net \cap
         Keys(StripPrefixes(
                SelectWeights(file.checkpoint,
                              Get(o.path, "param_key_g", S_params)).weights))

\* BaseModel.setup: load the pretrained weights when a path is configured,
\* then start with an empty index-to-name mapping
setup(o, file, rank, crt_net, names, order) ==
    LET load_path == Get(o.path, "pretrain_network_g", "None")
        loaded == IF load_path # "None"
                  THEN load_weights(o, file, rank, crt_net, order)
                  ELSE [net |-> crt_net, log |-> <<>>, result |-> Return("None")]
    IN  [net |-> loaded.net,
         log |-> loaded.log,
         result |-> loaded.result,
         val_dataset_names |->
            IF loaded.result.kind = "raise" THEN names ELSE <<>>]

\* the trainer as BaseModel sees it before any run
NewTrainer(rank) ==
    [global_rank |-> rank, stage |-> "none", sanity_checking |-> FALSE,
     current_epoch |-> 0, global_step |-> 0,
     dataloader_idx |-> 0, batch_idx |-> 0]

\* the counters of a run that starts from scratch
FreshCounters == [current_epoch |-> 0, global_step |-> 0]

\* the trainer enters fit, validate or test and calls setup(stage); a fit run
\* opens with the sanity check, at the counters of the checkpoint it resumes
\* from when there is one
Setup(stage) ==
    /\ pc \in {"constructed", "idle", "testing"}
    /\ \E order \in Orders(CommonKeys(opt, args.file, net_g)) :
        LET r == setup(opt, args.file, trainer.global_rank, net_g,
                       val_dataset_names, order)
        IN  /\ net_g' = r.net
            /\ val_dataset_names' = r.val_dataset_names
            /\ ret' = [op |-> "setup", kind |-> r.result.kind,
                       result |-> r.result, log |-> r.log]
            /\ pc' = IF r.result.kind = "raise" THEN "failed"
                     ELSE IF stage = "test" THEN "testing" ELSE "idle"
    /\ LET restored == IF stage = "fit" THEN Get(args, "resume", FreshCounters)
                       ELSE FreshCounters
       IN  trainer' = [trainer EXCEPT !.stage = stage,
                                      !.sanity_checking = (stage = "fit"),
                                      !.current_epoch = restored.current_epoch,
                                      !.global_step = restored.global_step,
                                      !.dataloader_idx = 0,
                                      !.batch_idx = 0]
    /\ UNCHANGED <<opt, args, val_dataloaders, current_val_metrics, workers>>

-----------------------------------------------------------------------------
(* the checkpoints and configurations load_weights is run on *)

\* the most keys a weight mapping of the model holds
MaxKeys == 2

S_w == <<"w">>
S_b == <<"b">>
S_net == <<"n", "e", "t">>

\* the parameter names found in a weight mapping
WeightKeys ==
    {S_w, S_b, S_module \o S_w, S_orig_mod \o S_w,
     S_orig_mod \o S_module \o S_w, S_orig_mod \o S_orig_mod \o S_w}

\* the weight mappings: up to MaxKeys distinct keys in any order, the tensor
\* of the i-th entry holding the data i of the checkpoint in shape 1 or 2
WeightMappings ==
    UNION {{[i \in 1..n |->
                <<ks[i], [shape |-> sh[i], data |-> <<"checkpoint", i>>]>>] :
              ks \in {f \in [1..n -> WeightKeys] :
                        \A i, j \in 1..n : i # j => f[i] # f[j]},
              sh \in [1..n -> {1, 2}]} :
           n \in 0..MaxKeys}

\* the snapshot src of a weight mapping: the same keys and shapes, own data
Snapshot(w, src) ==
    [i \in DOMAIN w |-> <<w[i][1], [w[i][2] EXCEPT !.data = <<src, i>>]>>]

\* a checkpoint holding a snapshot under each key of present
Nested(w, present) ==
    SelectSeq(<<<<S_params, Snapshot(w, "params")>>,
                <<S_params_ema, Snapshot(w, "params_ema")>>,
                <<S_net, Snapshot(w, "net")>>>>,
              LAMBDA entry : entry[1] \in present)

\* a checkpoint is a weight mapping itself, or holds snapshots of one under
\* some of the keys params, params_ema and net
Checkpoints ==
    WeightMappings
    \cup {Nested(w, present) :
            w \in WeightMappings,
            present \in (SUBSET {S_params, S_params_ema, S_net}) \ {{}}}

\* what torch.load finds at the configured path
Files ==
    {[exists |-> FALSE]} \cup {[exists |-> TRUE, checkpoint |-> c] : c \in Checkpoints}

\* the path sections of a configuration with pretrained weights
LoadOpts ==
    {[path |-> [k \in {"pretrain_network_g"}
                      \cup {x \in {"param_key_g"} : key # <<>>}
                      \cup {x \in {"strict_load_g"} : strict # "absent"} |->
                  IF k = "pretrain_network_g" THEN "weights.pth"
                  ELSE IF k = "param_key_g" THEN key
                  ELSE strict = "on"]] :
        key \in {<<>>, S_params_ema, S_net},
        strict \in {"absent", "off"}}

\* the state_dict of the network BaseModel.__init__ builds
ModelNet ==
    (S_w :> [shape |-> 1, data |-> <<"init", 1>>])
    @@ (S_b :> [shape |-> 1, data |-> <<"init", 2>>])

InitLoad ==
    /\ pc = "constructed"
    /\ opt \in LoadOpts
    /\ args \in [file : Files]
    /\ ret = NoCall
    /\ net_g = ModelNet
    /\ trainer \in {NewTrainer(rank) : rank \in {0, 1}}
    /\ val_dataloaders = <<>>
    /\ val_dataset_names = <<>>
    /\ current_val_metrics = <<>>
    /\ workers = <<>>

NextLoad == Setup("fit")

SpecLoad == InitLoad /\ [][NextLoad]_vars

-----------------------------------------------------------------------------
(* BaseModel.validation_step *)

\* osp.splitext(osp.basename(p))[0] of a path held as directory, stem, extension
PathStem(p) == p.stem

\* the name under which the images of a batch are saved
ImgName(batch, batch_idx) ==
    IF "inp_path" \in DOMAIN batch /\ Len(batch["inp_path"]) > 0
    THEN PathStem(batch["inp_path"][1])
    ELSE "sample_" \o ToString(batch_idx)

\* the truth value Python gives to the result of dict.get(k)
Truthy(d, k) == k \in DOMAIN d /\ d[k] # ""

\* the test-mode directory without the dataset name
MutSavePaths(o, tr, dataset_name, img_name) ==
    LET current_iter == IF tr.sanity_checking THEN tr.current_epoch
                        ELSE tr.global_step
        tag == IF Truthy(o.val, "suffix") THEN o.val["suffix"] ELSE o.name
    IN  IF o.is_train
        THEN LET save_dir == <<o.path.visualization, dataset_name, img_name>>
             IN  [save_dir |-> save_dir,
                  clean |-> Append(save_dir, img_name \o "_clean_"
                                     \o ToString(current_iter) \o ".png"),
                  reflection |-> Append(save_dir, img_name \o "_reflection_"
                                          \o ToString(current_iter) \o ".png")]
        ELSE LET save_dir == <<o.path.visualization, img_name>>
             IN  [save_dir |-> save_dir,
                  clean |-> Append(save_dir, img_name \o "_clean_" \o tag \o ".png"),
                  reflection |-> Append(save_dir, img_name \o "_reflection_"
                                          \o tag \o ".png")]

\* save_dir, save_clean_img_path and save_reflection_img_path; a path is the
\* sequence of the components osp.join puts together
SavePaths(o, tr, dataset_name, img_name) ==
    LET current_iter == IF tr.sanity_checking THEN tr.current_epoch
                        ELSE tr.global_step
        tag == IF Truthy(o.val, "suffix") THEN o.val["suffix"] ELSE o.name
    IN  IF o.is_train
        THEN LET save_dir == <<o.path.visualization, dataset_name, img_name>>
             IN  [save_dir |-> save_dir,
                  clean |-> Append(save_dir, img_name \o "_clean_"
                                     \o ToString(current_iter) \o ".png"),
                  reflection |-> Append(save_dir, img_name \o "_reflection_"
                                          \o ToString(current_iter) \o ".png")]
        ELSE LET save_dir == <<o.path.visualization, dataset_name>>
             IN  [save_dir |-> save_dir,
                  clean |-> Append(save_dir, img_name \o "_clean_" \o tag \o ".png"),
                  reflection |-> Append(save_dir, img_name \o "_reflection_"
                                          \o tag \o ".png")]

\* the try block that saves the two images: io names the call of the block
\* that raises, if any; what was written before it stays written
SaveImages(o, tr, dataset_name, img_name, io) ==
    IF tr.global_rank = 0 /\ Get(o.val, "save_img", FALSE)
    THEN LET paths == SavePaths(o, tr, dataset_name, img_name)
         IN  IF io = "makedirs" THEN [dirs |-> {}, files |-> {}]
             ELSE IF io = "imwrite_clean"
             THEN [dirs |-> {paths.save_dir}, files |-> {}]
             ELSE IF io = "imwrite_reflection"
             THEN [dirs |-> {paths.save_dir}, files |-> {paths.clean}]
             ELSE [dirs |-> {paths.save_dir},
                   files |-> {paths.clean, paths.reflection}]
    ELSE [dirs |-> {}, files |-> {}]

\* the list replaced by a new one that holds the value alone
MutAppendMetric(metrics, dataset_name, name, metric_value) ==
    LET of_dataset == Get(metrics, dataset_name, <<>>)
        updated == [n \in DOMAIN of_dataset \cup {name} |->
                      IF n = name THEN <<metric_value>> ELSE of_dataset[n]]
    IN  [d \in DOMAIN metrics \cup {dataset_name} |->
            IF d = dataset_name THEN updated ELSE metrics[d]]

\* current_val_metrics[dataset_name][name].append(metric_value), the dict and
\* the list made when they are missing
AppendMetric(metrics, dataset_name, name, metric_value) ==
    LET of_dataset == Get(metrics, dataset_name, <<>>)
        values == Get(of_dataset, name, <<>>)
        updated == [n \in DOMAIN of_dataset \cup {name} |->
                      IF n = name THEN Append(values, metric_value)
                      ELSE of_dataset[n]]
    IN  [d \in DOMAIN metrics \cup {dataset_name} |->
            IF d = dataset_name THEN updated ELSE metrics[d]]

\* one try block around the whole loop: the first failure ends the loop
RECURSIVE MutAccumulate(_, _, _, _)
MutAccumulate(items, metrics, dataset_name, computed) ==
    IF items = <<>> THEN metrics
    ELSE LET name == Head(items)[1]
         IN  IF computed[name].ok
             THEN MutAccumulate(Tail(items),
                                AppendMetric(metrics, dataset_name, name,
                                             computed[name].v),
                                dataset_name, computed)
             ELSE metrics

\* the loop over opt['val']['metrics'].items(): computed[name] is what
\* calculate_metric does for the metric name, a value or a raise
RECURSIVE Accumulate(_, _, _, _)
Accumulate(items, metrics, dataset_name, computed) ==
    IF items = <<>> THEN metrics
    ELSE LET name == Head(items)[1]
         IN  IF computed[name].ok
             THEN Accumulate(Tail(items),
                             AppendMetric(metrics, dataset_name, name,
                                          computed[name].v),
                             dataset_name, computed)
             ELSE Accumulate(Tail(items), metrics, dataset_name, computed)

\* the step: its result, the accumulator it leaves and what it wrote
validation_step(o, tr, names, metrics, batch, batch_idx, dataloader_idx, computed, io) ==
    IF dataloader_idx \notin DOMAIN names
    THEN [result |-> Raise("KeyError", <<dataloader_idx>>),
          metrics |-> metrics, saved |-> [dirs |-> {}, files |-> {}]]
    ELSE IF "input" \notin DOMAIN batch
    THEN [result |-> Return([error |-> "Missing required key: input"]),
          metrics |-> metrics, saved |-> [dirs |-> {}, files |-> {}]]
    ELSE IF "target_t" \notin DOMAIN batch
    THEN [result |-> Raise("KeyError", <<"target_t">>),
          metrics |-> metrics, saved |-> [dirs |-> {}, files |-> {}]]
    ELSE LET dataset_name == names[dataloader_idx]
             img_name == ImgName(batch, batch_idx)
         IN  [result |-> Return([output_clean |-> "output[:, :3]",
                                 output_reflection |-> "output[:, 3:]",
                                 img_name |-> img_name,
                                 dataset_name |-> dataset_name]),
              metrics |-> IF "metrics" \in DOMAIN o.val
                          THEN Accumulate(o.val["metrics"], metrics,
                                          dataset_name, computed)
                          ELSE metrics,
              saved |-> SaveImages(o, tr, dataset_name, img_name, io)]

-----------------------------------------------------------------------------
(* BaseModel.on_validation_epoch_start / on_validation_epoch_end *)

\* loader.dataset.opt['name'] when the dataset has it, else the fallback
LoaderName(loader, fallback) ==
    IF "opt" \in DOMAIN loader.dataset /\ "name" \in DOMAIN loader.dataset.opt
    THEN loader.dataset.opt.name
    ELSE fallback

\* self.val_dataset_names after the loop over trainer.val_dataloaders: an
\* entry is assigned for each loader, and no entry is removed
EpochStartNames(names, loaders) ==
    IF loaders.is_list
    THEN [idx \in DOMAIN names \cup 0..(Len(loaders.loaders) - 1) |->
            IF idx < Len(loaders.loaders)
            THEN LoaderName(loaders.loaders[idx + 1], "val_" \o ToString(idx))
            ELSE names[idx]]
    ELSE [idx \in DOMAIN names \cup {0} |->
            IF idx = 0 THEN LoaderName(loaders.loaders[1], "val")
            ELSE names[idx]]

\* sum(values)
RECURSIVE SumSeq(_)
SumSeq(values) ==
    IF values = <<>> THEN 0 ELSE Head(values) + SumSeq(Tail(values))

RECURSIVE GCD(_, _)
GCD(a, b) == IF b = 0 THEN a ELSE GCD(b, a % b)

\* a / b, held exactly as numerator and denominator in lowest terms
TrueDiv(a, b) == <<a \div GCD(a, b), b \div GCD(a, b)>>

\* total_average_metrics[metric_name] before the division: 'val' and 'counts'
\* summed over the datasets of the set D that hold the metric
RECURSIVE Totals(_, _, _)
Totals(metrics, D, metric_name) ==
    IF D = {} THEN [val |-> 0, counts |-> 0]
    ELSE LET d == CHOOSE x \in D : TRUE
             rest == Totals(metrics, D \ {d}, metric_name)
         IN  IF metric_name \in DOMAIN metrics[d]
             THEN [val |-> rest.val + SumSeq(metrics[d][metric_name]),
                   counts |-> rest.counts + Len(metrics[d][metric_name])]
             ELSE rest

\* the sum of the per-dataset means over the number of datasets
MutTotalAverage(metrics, metric_name) ==
    LET D == {d \in DOMAIN metrics : metric_name \in DOMAIN metrics[d]}
        RECURSIVE SumMeans(_)
        SumMeans(S) ==
            IF S = {} THEN <<0, 1>>
            ELSE LET d == CHOOSE x \in S : TRUE
                     r == SumMeans(S \ {d})
                     n == SumSeq(metrics[d][metric_name])
                     c == Len(metrics[d][metric_name])
                 IN  <<r[1] * c + n * r[2], r[2] * c>>
        total == SumMeans(D)
    IN  TrueDiv(total[1], total[2] * Cardinality(D))

\* v['val'] / v['counts']
TotalAverage(metrics, metric_name) ==
    LET t == Totals(metrics, DOMAIN metrics, metric_name)
    IN  TrueDiv(t.val, t.counts)

\* what on_validation_epoch_end reports: the add_scalar calls and the
\* self.log calls, each with its tag and value
on_validation_epoch_end(metrics, current_epoch) ==
    LET names == UNION {DOMAIN metrics[d] : d \in DOMAIN metrics}
        per_dataset ==
            {[tag |-> "metrics/" \o d \o "/" \o m,
              value |-> TrueDiv(SumSeq(metrics[d][m]), Len(metrics[d][m])),
              step |-> current_epoch] :
               <<d, m>> \in {x \in (DOMAIN metrics) \X names : x[2] \in DOMAIN metrics[x[1]]}}
        average ==
            {[tag |-> "metrics/average/" \o m,
              value |-> TotalAverage(metrics, m),
              step |-> current_epoch] : m \in names}
    IN  [add_scalar |-> per_dataset \cup average,
         log |-> {[name |-> x.tag, value |-> x.value] : x \in average}]

-----------------------------------------------------------------------------
(* a run of the trainer over BaseModel's hooks *)

\* the most batches a loader yields in one epoch
MaxBatches == 2

\* the most training epochs of a fit run
MaxEpochs == 2

\* the optimizer steps of one training epoch
TrainBatches == 2

\* what calculate_metric returns for a metric
MetricValues(name) == IF name = "psnr" THEN {10, 20, 30} ELSE {1}

\* what the calls of calculate_metric of one step do: for each configured
\* metric a value, or a raise
Outcomes(o) ==
    IF "metrics" \notin DOMAIN o.val THEN {<<>>}
    ELSE LET names == {o.val["metrics"][i][1] : i \in DOMAIN o.val["metrics"]}
         IN  {f \in [names -> [ok : {FALSE}] \cup
                               [ok : {TRUE}, v : UNION {MetricValues(n) : n \in names}]] :
                \A n \in names : f[n].ok => f[n].v \in MetricValues(n)}

\* the call of the saving block that raises, when the block is entered
IOFailures(o, tr) ==
    IF tr.global_rank = 0 /\ Get(o.val, "save_img", FALSE)
    THEN {"none", "makedirs", "imwrite_clean", "imwrite_reflection"}
    ELSE {"none"}

\* the step as the trainer runs it: its outcome goes to ret, a raise ends
\* the run
RunStep(op, batch, batch_idx, dataloader_idx, computed, io) ==
    LET r == validation_step(opt, trainer, val_dataset_names,
                             current_val_metrics, batch, batch_idx,
                             dataloader_idx, computed, io)
        normal == r.result.kind = "return" /\ "error" \notin DOMAIN r.result.value
    IN  /\ current_val_metrics' = r.metrics
        /\ ret' = [op |-> op, kind |-> r.result.kind, result |-> r.result,
                   batch |-> batch, batch_idx |-> batch_idx,
                   dataloader_idx |-> dataloader_idx,
                   computed |-> IF normal THEN computed ELSE <<>>,
                   io |-> IF normal THEN io ELSE "none",
                   saved |-> r.saved]
        /\ pc' = IF r.result.kind = "raise" THEN "failed" ELSE pc

\* the hook without its first statement: the accumulator is kept
MutOnValidationEpochStart ==
    /\ pc = "idle"
    /\ trainer.stage \in {"fit", "validate"}
    /\ val_dataset_names' = EpochStartNames(val_dataset_names, val_dataloaders)
    /\ trainer' = [trainer EXCEPT !.dataloader_idx = 0, !.batch_idx = 0]
    /\ ret' = [op |-> "on_validation_epoch_start", kind |-> "return"]
    /\ pc' = "validating"
    /\ UNCHANGED <<opt, args, net_g, val_dataloaders, current_val_metrics, workers>>

OnValidationEpochStart ==
    /\ pc = "idle"
    /\ trainer.stage \in {"fit", "validate"}
    /\ current_val_metrics' = <<>>
    /\ val_dataset_names' = EpochStartNames(val_dataset_names, val_dataloaders)
    /\ trainer' = [trainer EXCEPT !.dataloader_idx = 0, !.batch_idx = 0]
    /\ ret' = [op |-> "on_validation_epoch_start", kind |-> "return"]
    /\ pc' = "validating"
    /\ UNCHANGED <<opt, args, net_g, val_dataloaders, workers>>

\* the next batch of the current loader, or the first batch of a later one
ValidationStep ==
    /\ pc = "validating"
    /\ \E dataloader_idx \in trainer.dataloader_idx..(Len(val_dataloaders.loaders) - 1),
          batch \in args.batches,
          computed \in Outcomes(opt),
          io \in IOFailures(opt, trainer) :
        LET batch_idx == IF dataloader_idx = trainer.dataloader_idx
                         THEN trainer.batch_idx ELSE 0
        IN  /\ batch_idx < MaxBatches
            /\ RunStep("validation_step", batch, batch_idx, dataloader_idx,
                       computed, io)
            /\ trainer' = [trainer EXCEPT !.dataloader_idx = dataloader_idx,
                                          !.batch_idx = batch_idx + 1]
    /\ UNCHANGED <<opt, args, net_g, val_dataloaders, val_dataset_names, workers>>

OnValidationEpochEnd ==
    /\ pc = "validating"
    /\ LET r == on_validation_epoch_end(current_val_metrics, trainer.current_epoch)
       IN  ret' = [op |-> "on_validation_epoch_end", kind |-> "return",
                   add_scalar |-> r.add_scalar, log |-> r.log]
    /\ pc' = "idle"
    /\ UNCHANGED <<opt, args, net_g, trainer, val_dataloaders,
                   val_dataset_names, current_val_metrics, workers>>

\* test_step(batch, batch_idx) is validation_step with dataloader_idx = 0
TestStep ==
    /\ pc = "testing"
    /\ trainer.batch_idx < MaxBatches
    /\ \E batch \in args.batches,
          computed \in Outcomes(opt),
          io \in IOFailures(opt, trainer) :
        RunStep("test_step", batch, trainer.batch_idx, 0, computed, io)
    /\ trainer' = [trainer EXCEPT !.batch_idx = @ + 1]
    /\ UNCHANGED <<opt, args, net_g, val_dataloaders, val_dataset_names, workers>>

\* a training epoch of a fit run; the first one ends the sanity check
TrainingEpoch ==
    /\ pc = "idle"
    /\ trainer.stage = "fit"
    /\ trainer.sanity_checking \/ trainer.current_epoch + 1 < MaxEpochs
    /\ trainer' = [trainer EXCEPT
                     !.sanity_checking = FALSE,
                     !.current_epoch = IF trainer.sanity_checking THEN 0 ELSE @ + 1,
                     !.global_step = @ + TrainBatches]
    /\ UNCHANGED <<pc, opt, args, ret, net_g, val_dataloaders,
                   val_dataset_names, current_val_metrics, workers>>

\* a batch as the dataset yields it, and the batches that lack a field
FullBatch ==
    [input |-> "input", target_t |-> "target_t",
     inp_path |-> <<[dirname |-> "data", stem |-> "img", ext |-> ".png"]>>]

Without(batch, key) == [k \in DOMAIN batch \ {key} |-> batch[k]]

\* a validation loader over a dataset
Loader(dataset) == [dataset |-> dataset]

\* datasets named dsA and dsB, one whose opt has no name, one without opt
NamedA == [opt |-> [name |-> "dsA"]]
NamedB == [opt |-> [name |-> "dsB"]]
Unnamed == [opt |-> <<>>]
NoOpt == <<>>

\* the configuration of a run that only validates or tests, with two metrics
ValOpt ==
    [is_train |-> FALSE, name |-> "run",
     path |-> [visualization |-> "vis"],
     val |-> [metrics |-> <<<<"psnr", [type |-> "calculate_psnr"]>>,
                            <<"ssim", [type |-> "calculate_ssim"]>>>>]]

Init ==
    /\ pc = "constructed"
    /\ opt = ValOpt
    /\ args = [file |-> [exists |-> FALSE],
               batches |-> {FullBatch, Without(FullBatch, "input")}]
    /\ ret = NoCall
    /\ net_g = ModelNet
    /\ trainer = NewTrainer(0)
    /\ val_dataloaders \in
         {[is_list |-> TRUE, loaders |-> <<Loader(NamedA), Loader(NamedB)>>],
          [is_list |-> FALSE, loaders |-> <<Loader(Unnamed)>>]}
    /\ val_dataset_names = <<>>
    /\ current_val_metrics = <<>>
    /\ workers = <<>>

Next ==
    \/ \E stage \in {"validate", "test"} : Setup(stage)
    \/ OnValidationEpochStart
    \/ ValidationStep
    \/ OnValidationEpochEnd
    \/ TestStep

Spec == Init /\ [][Next]_vars

-----------------------------------------------------------------------------
(* runs that save the validation images *)

\* opt['val'] of a run: saving off, on, on with a suffix, on with an empty one
SaveVals ==
    {<<>>, [save_img |-> FALSE], [save_img |-> TRUE],
     [save_img |-> TRUE, suffix |-> "x4"], [save_img |-> TRUE, suffix |-> ""]}

SaveOpts ==
    {[is_train |-> t, name |-> "run", path |-> [visualization |-> "vis"],
      val |-> v] : t \in BOOLEAN, v \in SaveVals}

\* the batches of these runs: complete, without a path, with an empty path
\* list, without a target
SaveBatches ==
    {FullBatch, Without(FullBatch, "inp_path"),
     [FullBatch EXCEPT !.inp_path = <<>>], Without(FullBatch, "target_t")}

\* the counters a fit run starts from: scratch, or a checkpoint written after
\* one training epoch
Resumes ==
    {FreshCounters, [current_epoch |-> 1, global_step |-> TrainBatches]}

\* the values trainer.val_dataloaders takes in these runs: a list of two
\* loaders, or one loader that is not in a list
SaveLoaderSets ==
    {[is_list |-> TRUE, loaders |-> <<Loader(NamedA), Loader(NoOpt)>>],
     [is_list |-> FALSE, loaders |-> <<Loader(NoOpt)>>]}

\* between two training epochs of a fit run the trainer reloads its validation
\* loaders, and trainer.val_dataloaders becomes another loader set
ReloadDataloaders ==
    /\ pc = "idle"
    /\ trainer.stage = "fit"
    /\ ~trainer.sanity_checking
    /\ val_dataloaders' \in SaveLoaderSets \ {val_dataloaders}
    /\ UNCHANGED <<pc, opt, args, ret, net_g, trainer, val_dataset_names,
                   current_val_metrics, workers>>

InitSave ==
    /\ pc = "constructed"
    /\ opt \in SaveOpts
    /\ \E resume \in Resumes :
        args = [file |-> [exists |-> FALSE], batches |-> SaveBatches,
                resume |-> resume]
    /\ ret = NoCall
    /\ net_g = ModelNet
    /\ \E rank \in {0, 1} : trainer = NewTrainer(rank)
    /\ val_dataloaders \in SaveLoaderSets
    /\ val_dataset_names = <<>>
    /\ current_val_metrics = <<>>
    /\ workers = <<>>

NextSave ==
    \/ \E stage \in {"fit", "validate", "test"} : Setup(stage)
    \/ TrainingEpoch
    \/ ReloadDataloaders
    \/ OnValidationEpochStart
    \/ ValidationStep
    \/ OnValidationEpochEnd
    \/ TestStep

SpecSave == InitSave /\ [][NextSave]_vars

-----------------------------------------------------------------------------
(* C1, C2, C3 *)

\* sum(values), by the last element
RECURSIVE C1_Total(_)
C1_Total(values) ==
    IF Len(values) = 0 THEN 0
    ELSE values[Len(values)] + C1_Total(SubSeq(values, 1, Len(values) - 1))

\* all the values of a metric, the lists of the datasets of D one after another
RECURSIVE C1_AllValues(_, _)
C1_AllValues(D, m) ==
    IF D = {} THEN <<>>
    ELSE LET d == CHOOSE x \in D : TRUE
         IN  current_val_metrics[d][m] \o C1_AllValues(D \ {d}, m)

\* the reported value v is the mean of the values
C1_IsMean(v, values) ==
    /\ Len(values) > 0
    /\ v[2] > 0
    /\ v[1] * Len(values) = C1_Total(values) * v[2]

\* a scalar is reported under the tag, and it is the mean of the values
C1_Reports(tag, values) ==
    /\ \E s \in ret.add_scalar : s.tag = tag
    /\ \A s \in ret.add_scalar : s.tag = tag => C1_IsMean(s.value, values)

\* C1: at the end of a validation epoch the value reported for a dataset and
\* a metric is the arithmetic mean of that dataset's list, and the value
\* reported as the average of a metric is the sum of all its values over all
\* datasets divided by their number
C1_EpochEndMeans ==
    ret.op = "on_validation_epoch_end" =>
        /\ \A d \in DOMAIN current_val_metrics :
             \A m \in DOMAIN current_val_metrics[d] :
                C1_Reports("metrics/" \o d \o "/" \o m, current_val_metrics[d][m])
        /\ \A m \in UNION {DOMAIN current_val_metrics[d] :
                             d \in DOMAIN current_val_metrics} :
             LET all == C1_AllValues({d \in DOMAIN current_val_metrics :
                                        m \in DOMAIN current_val_metrics[d]}, m)
             IN  /\ C1_Reports("metrics/average/" \o m, all)
                 /\ \E l \in ret.log : l.name = "metrics/average/" \o m
                 /\ \A l \in ret.log :
                      l.name = "metrics/average/" \o m => C1_IsMean(l.value, all)

\* C1: an epoch ends on dsA with psnr [10, 20] and dsB with psnr [30], and
\* reports 15, 30 and the average 20
C1_Witness ==
    /\ ret.op = "on_validation_epoch_end"
    /\ {"dsA", "dsB"} \subseteq DOMAIN current_val_metrics
    /\ "psnr" \in DOMAIN current_val_metrics["dsA"]
    /\ "psnr" \in DOMAIN current_val_metrics["dsB"]
    /\ current_val_metrics["dsA"]["psnr"] = <<10, 20>>
    /\ current_val_metrics["dsB"]["psnr"] = <<30>>
    /\ [tag |-> "metrics/dsA/psnr", value |-> <<15, 1>>, step |-> 0] \in ret.add_scalar
    /\ [tag |-> "metrics/dsB/psnr", value |-> <<30, 1>>, step |-> 0] \in ret.add_scalar
    /\ [tag |-> "metrics/average/psnr", value |-> <<20, 1>>, step |-> 0] \in ret.add_scalar

\* C2: a validation or test step whose batch has no input field does not
\* raise: it returns a tagged error result, leaves the accumulator unchanged
\* and the run goes on
C2_NoInputNoRaise ==
    [][(/\ ret'.op \in {"validation_step", "test_step"}
        /\ "input" \notin DOMAIN ret'.batch)
       => /\ ret'.kind = "return"
          /\ "error" \in DOMAIN ret'.result.value
          /\ current_val_metrics' = current_val_metrics
          /\ pc' # "failed"]_vars

\* the list of a metric in an accumulator, empty when it is not there
C3_Values(metrics, dataset_name, name) ==
    Get(Get(metrics, dataset_name, <<>>), name, <<>>)

\* C3: a validation step on a batch with input and target returns its normal
\* result whatever the metric computations do; each configured metric whose
\* computation succeeds is appended under (dataset_name, metric_name), each
\* one that fails is skipped, wherever it stands in the configured order
C3_FailedMetricSkipped ==
    [][(/\ ret'.op = "validation_step"
        /\ {"input", "target_t"} \subseteq DOMAIN ret'.batch
        /\ ret'.dataloader_idx \in DOMAIN val_dataset_names)
       => /\ ret'.kind = "return"
          /\ "error" \notin DOMAIN ret'.result.value
          /\ ret'.result.value.dataset_name = val_dataset_names[ret'.dataloader_idx]
          /\ DOMAIN ret'.computed =
                {opt.val["metrics"][i][1] : i \in DOMAIN opt.val["metrics"]}
          /\ \A d \in DOMAIN current_val_metrics' \cup DOMAIN current_val_metrics :
               \A n \in DOMAIN ret'.computed :
                 LET before == C3_Values(current_val_metrics, d, n)
                     after == C3_Values(current_val_metrics', d, n)
                 IN  IF d = val_dataset_names[ret'.dataloader_idx]
                        /\ ret'.computed[n].ok
                     THEN after = Append(before, ret'.computed[n].v)
                     ELSE after = before]_vars

\* C3: a step in which the first configured metric failed and the second one
\* was appended
C3_Witness ==
    /\ ret.op = "validation_step"
    /\ ret.kind = "return"
    /\ {"psnr", "ssim"} \subseteq DOMAIN ret.computed
    /\ ~ret.computed["psnr"].ok
    /\ ret.computed["ssim"].ok
    /\ C3_Values(current_val_metrics, ret.result.value.dataset_name, "psnr") = <<>>
    /\ C3_Values(current_val_metrics, ret.result.value.dataset_name, "ssim") = <<1>>

-----------------------------------------------------------------------------
(* C4, C5, C8 *)

\* the value a checkpoint holds under a key
C4_At(ck, k) == ck[CHOOSE i \in DOMAIN ck : ck[i][1] = k][2]

\* C4: load_weights selects the weight mapping by exactly one of four
\* branches, tried in order: the configured key if present; params_ema if
\* present and the configured key is not params_ema; params if present and
\* the configured key is not params; otherwise the whole checkpoint.
C4_Selection ==
    (pc # "constructed" /\ args.file.exists) =>
        LET ck == args.file.checkpoint
            key == IF "param_key_g" \in DOMAIN opt.path
                   THEN opt.path["param_key_g"] ELSE S_params
            has(k) == \E i \in DOMAIN ck : ck[i][1] = k
            a == has(key)
            b == ~a /\ has(S_params_ema) /\ key # S_params_ema
            c == ~a /\ ~b /\ has(S_params) /\ key # S_params
            d == ~a /\ ~b /\ ~c
        IN  /\ a => ret.log.branch = "param_key"
                    /\ ret.log.selected = C4_At(ck, key)
            /\ b => ret.log.branch = "params_ema"
                    /\ ret.log.selected = C4_At(ck, S_params_ema)
            /\ c => ret.log.branch = "params"
                    /\ ret.log.selected = C4_At(ck, S_params)
            /\ d => ret.log.branch = "checkpoint"
                    /\ ret.log.selected = ck
            /\ (key = S_params_ema /\ ~has(S_params_ema)) =>
                    ret.log.selected
                      = IF has(S_params) THEN C4_At(ck, S_params) ELSE ck

\* a checkpoint holding only params_ema has been loaded with the key params
\* left at its default, and the params_ema snapshot was selected
C4_Witness ==
    /\ pc = "idle"
    /\ args.file.exists
    /\ Keys(args.file.checkpoint) = {S_params_ema}
    /\ "param_key_g" \notin DOMAIN opt.path
    /\ ret.log.selected # <<>>
    /\ ret.log.selected = C4_At(args.file.checkpoint, S_params_ema)
    /\ ret.kind = "return"

\* k without prefix when it starts with it
C5_Without(k, prefix) ==
    IF Len(k) >= Len(prefix) /\ \A i \in 1..Len(prefix) : k[i] = prefix[i]
    THEN [i \in 1..(Len(k) - Len(prefix)) |-> k[i + Len(prefix)]]
    ELSE k

\* k without '_orig_mod.', and then without 'module.'
C5_Stripped(k) == C5_Without(C5_Without(k, S_orig_mod), S_module)

\* C5 (as stated): before the selected mapping is matched against the
\* model, every key has '_orig_mod.' removed if it starts with it and then
\* 'module.' removed if the result starts with it, each key keeping its own
\* tensor.  Stated for the mappings on which that is possible at all: those
\* no two keys of which reduce to the same name.
C5_PrefixStripping ==
    (pc # "constructed" /\ args.file.exists) =>
        LET sel == ret.log.selected
            out == ret.log.stripped
        IN  (\A i, j \in DOMAIN sel :
                i # j => C5_Stripped(sel[i][1]) # C5_Stripped(sel[j][1]))
            => /\ Keys(out) = {C5_Stripped(sel[i][1]) : i \in DOMAIN sel}
               /\ \A i \in DOMAIN sel :
                    Lookup(out, C5_Stripped(sel[i][1])) = sel[i][2]

\* C8 (as stated): whenever load_weights runs in non-strict mode, on any
\* rank, every key of both the model and the snapshot whose shapes differ is
\* renamed in the snapshot by appending '.ignore' before the snapshot is
\* applied, and every other key of the snapshot is left as it is.
C8_IgnoreOnMismatch ==
    (pc # "constructed" /\ args.file.exists
       /\ "strict_load_g" \in DOMAIN opt.path /\ ~opt.path["strict_load_g"]) =>
        LET before == ret.log.stripped
            after == ret.log.state_dict
        IN  \A i \in DOMAIN before :
                LET k == before[i][1]
                    v == before[i][2]
                IN  IF k \in DOMAIN net_g /\ net_g[k].shape # v.shape
                    THEN /\ k \notin Keys(after)
                         /\ (k \o S_ignore) \in Keys(after)
                         /\ Lookup(after, k \o S_ignore) = v
                    ELSE /\ k \in Keys(after)
                         /\ Lookup(after, k) = v

-----------------------------------------------------------------------------
(* C6, C7 *)

\* C6: build_dataloader follows the phase policy: train gives the per-GPU
\* batch size and worker count, drops the last incomplete batch and shuffles
\* exactly when no sampler is supplied; val and test give batch size 1, no
\* workers, the optional shuffle flag (off by default) and no dropped batch;
\* any other phase raises ValueError with the phase in its message and no
\* loader is returned.
C6_PhasePolicy ==
    pc = "built" =>
        /\ opt["phase"] = "train" =>
            /\ ret.kind = "return"
            /\ LoaderArg(ret.value, "batch_size") = opt["batch_size_per_gpu"]
            /\ LoaderArg(ret.value, "num_workers") = opt["num_worker_per_gpu"]
            /\ LoaderArg(ret.value, "drop_last") = TRUE
            /\ LoaderArg(ret.value, "shuffle") = (args.sampler = "None")
        /\ opt["phase"] \in {"val", "test"} =>
            /\ ret.kind = "return"
            /\ LoaderArg(ret.value, "batch_size") = 1
            /\ LoaderArg(ret.value, "num_workers") = 0
            /\ LoaderArg(ret.value, "drop_last") = FALSE
            /\ LoaderArg(ret.value, "shuffle")
                 = ("use_shuffle" \in DOMAIN opt /\ opt["use_shuffle"])
        /\ opt["phase"] \notin {"train", "val", "test"} =>
            /\ ret.kind = "raise"
            /\ ret.exc = "ValueError"
            /\ \E i \in DOMAIN ret.msg : ret.msg[i] = opt["phase"]

\* a train loader has been built around an external sampler, unshuffled
C6_Witness ==
    /\ pc = "built"
    /\ opt["phase"] = "train"
    /\ args.sampler = "sampler"
    /\ ret.kind = "return"
    /\ LoaderArg(ret.value, "shuffle") = FALSE
    /\ LoaderArg(ret.value, "batch_size") = 4

\* the rank as a number: the RANK setting read as a decimal, 0 when unset
C7_RankNumber ==
    IF "RANK" \notin DOMAIN args.environ THEN 0
    ELSE IF args.environ["RANK"] = <<"0">> THEN 0
    ELSE 1

\* C7 (as stated): every worker w of a train loader built with the integer
\* seed s and n workers in a process of rank r is seeded with n*r + w + s.
C7_WorkerSeedFormula ==
    (pc = "built" /\ opt["phase"] = "train" /\ args.seed.t = "int") =>
        \A w \in DOMAIN workers :
            /\ workers[w].kind = "return"
            /\ workers[w].value.np_random_seed
                 = opt["num_worker_per_gpu"] * C7_RankNumber + w + args.seed.v
            /\ workers[w].value.random_seed
                 = opt["num_worker_per_gpu"] * C7_RankNumber + w + args.seed.v

-----------------------------------------------------------------------------
(* C9 *)

\* the bundle configure_optimizers returns for a recognised scheduler type
C9_BundleShape ==
    /\ ret.value.optimizer.cls = args.optimizer_params.optim_type
    /\ ret.value.lr_scheduler.scheduler.optimizer = ret.value.optimizer
    /\ ret.value.lr_scheduler.monitor
         = Get(Get(opt, "checkpoint", <<>>), "monitor", "val/psnr")
    /\ ret.value.lr_scheduler.interval = "epoch"
    /\ ret.value.lr_scheduler.frequency = 1

\* C9 (as amended): the scheduler type is mapped to exactly one of two
\* algorithms: the two names MultiStepLR and MultiStepRestartLR select step
\* decay at milestones, the single name CosineAnnealingRestartLR selects
\* cosine annealing; every other type raises NotImplementedError and no
\* bundle is returned; for a recognised type, once the optimizer is built,
\* the bundle pairs optimizer and scheduler with the monitored metric name,
\* the interval "epoch" and the frequency 1.
C9_SchedulerMapping ==
    pc = "done" =>
        LET t == opt.train.scheduler.type
            built == args.optimizer_params.optim_type \in OptimizerTypes
        IN  /\ t \in {"MultiStepLR", "MultiStepRestartLR"} /\ built =>
                /\ ret.kind = "return"
                /\ ret.value.lr_scheduler.scheduler.cls = "MultiStepLR"
                /\ C9_BundleShape
            /\ t = "CosineAnnealingRestartLR" /\ built =>
                /\ ret.kind = "return"
                /\ ret.value.lr_scheduler.scheduler.cls = "CosineAnnealingLR"
                /\ C9_BundleShape
            /\ t \notin {"MultiStepLR", "MultiStepRestartLR",
                         "CosineAnnealingRestartLR"} =>
                /\ ret.kind = "raise"
                /\ ret.exc = "NotImplementedError"
            /\ ~built => ret.kind = "raise" /\ ret.exc = "NotImplementedError"

\* a cosine-annealing bundle with the default monitor has been returned
C9_Witness ==
    /\ pc = "done"
    /\ ret.kind = "return"
    /\ ret.value.lr_scheduler.scheduler.cls = "CosineAnnealingLR"
    /\ "checkpoint" \notin DOMAIN opt
    /\ ret.value.lr_scheduler.monitor = "val/psnr"

\* C9 (as stated): whenever a type name has selected cosine annealing, a
\* second, distinct type name selects cosine annealing too.
C9_TwoCosineNames ==
    (pc = "done" /\ ret.kind = "return"
       /\ ret.value.lr_scheduler.scheduler.cls = "CosineAnnealingLR") =>
        \E other \in SchedulerTypes \ {opt.train.scheduler.type} :
            SchedulerClass(other) = "CosineAnnealingLR"

-----------------------------------------------------------------------------
(* C10 *)

\* a validation step has just saved its images: saving is enabled, the rank
\* is the primary one and no call of the saving block failed
C10_Saving ==
    /\ pc = "validating"
    /\ ret.op = "validation_step"
    /\ ret.kind = "return"
    /\ "img_name" \in DOMAIN ret.result.value
    /\ trainer.global_rank = 0
    /\ "save_img" \in DOMAIN opt.val
    /\ opt.val["save_img"]
    /\ ret.io = "none"

\* the files written are <dirs>/<sample>_clean_<last>.png and
\* <dirs>/<sample>_reflection_<last>.png
C10_Written(dirs, sample, last) ==
    ret.saved.files =
        {Append(dirs, sample \o "_" \o role \o "_" \o last \o ".png") :
           role \in {"clean", "reflection"}}

\* the configured suffix, or the run name when there is none
C10_Suffix ==
    IF "suffix" \in DOMAIN opt.val /\ opt.val["suffix"] # ""
    THEN opt.val["suffix"] ELSE opt.name

\* C10 as stated: the images go to <root>/<dataset>/<sample>/ with the
\* current training step as last component in training mode, and to
\* <root>/<sample>/ with the suffix or run name in test mode
C10_PathAsStated ==
    C10_Saving =>
        LET v == ret.result.value
        IN  IF opt.is_train
            THEN C10_Written(<<opt.path.visualization, v.dataset_name, v.img_name>>,
                             v.img_name, ToString(trainer.global_step))
            ELSE C10_Written(<<opt.path.visualization, v.img_name>>,
                             v.img_name, C10_Suffix)

\* C10: in training mode the images go to <root>/<dataset>/<sample>/ with
\* the global step as last component (the current epoch during the sanity
\* check); in test mode they go to <root>/<dataset>/, with no directory for
\* the sample, and the last component is the suffix or the run name
C10_SavedPaths ==
    C10_Saving =>
        LET v == ret.result.value
        IN  IF opt.is_train
            THEN C10_Written(<<opt.path.visualization, v.dataset_name, v.img_name>>,
                             v.img_name,
                             ToString(IF trainer.sanity_checking
                                      THEN trainer.current_epoch
                                      ELSE trainer.global_step))
            ELSE C10_Written(<<opt.path.visualization, v.dataset_name>>,
                             v.img_name, C10_Suffix)

\* C10: a test-mode step has written vis/dsA/img_clean_x4.png
C10_Witness ==
    /\ C10_Saving
    /\ ~opt.is_train
    /\ <<"vis", "dsA", "img_clean_x4.png">> \in ret.saved.files
    /\ <<"vis", "dsA", "img_reflection_x4.png">> \in ret.saved.files

-----------------------------------------------------------------------------
(* C11 *)

\* C11 as stated: once on_validation_epoch_end has reported the averages the
\* accumulator is empty
C11_DiscardedAtEnd ==
    ret.op = "on_validation_epoch_end" => current_val_metrics = <<>>

\* C11: the accumulator is emptied by on_validation_epoch_start and by
\* nothing else: on_validation_epoch_end and setup leave it as it is, so the
\* values of an epoch stay in it after END until the next START
C11_ResetAtStartOnly ==
    [][/\ ret'.op = "on_validation_epoch_start" => current_val_metrics' = <<>>
       /\ ret'.op \in {"on_validation_epoch_end", "setup"}
            => current_val_metrics' = current_val_metrics]_vars

\* C11: an epoch has ended and reported averages, and the accumulator still
\* holds the values they were computed from
C11_Witness ==
    /\ ret.op = "on_validation_epoch_end"
    /\ pc = "idle"
    /\ ret.add_scalar # {}
    /\ current_val_metrics # <<>>

-----------------------------------------------------------------------------
(* C12 *)

\* the name of the loader at an index of the active loader set: the name its
\* dataset is configured with, or val_<idx> in a list and val otherwise
C12_Name(idx) ==
    LET dataset == val_dataloaders.loaders[idx + 1].dataset
    IN  IF "opt" \in DOMAIN dataset /\ "name" \in DOMAIN dataset.opt
        THEN dataset.opt.name
        ELSE IF val_dataloaders.is_list THEN "val_" \o ToString(idx) ELSE "val"

\* C12: from on_validation_epoch_start on and through every step of the epoch,
\* the mapping holds an entry for exactly the indices of the active loaders,
\* each with the name of its loader, and nothing left from an earlier epoch
C12_MappingRebuilt ==
    pc = "validating" =>
        /\ DOMAIN val_dataset_names = 0..(Len(val_dataloaders.loaders) - 1)
        /\ \A idx \in DOMAIN val_dataset_names :
             val_dataset_names[idx] = C12_Name(idx)

-----------------------------------------------------------------------------
(* C13 *)

\* during an epoch every dataset of the accumulator holds a metric and every
\* stored list holds a value; right after START the accumulator is empty
C13_Lazy ==
    /\ ret.op = "on_validation_epoch_start" => current_val_metrics = <<>>
    /\ pc = "validating" =>
         \A d \in DOMAIN current_val_metrics :
            /\ DOMAIN current_val_metrics[d] # {}
            /\ \A m \in DOMAIN current_val_metrics[d] :
                 Len(current_val_metrics[d][m]) > 0

\* what a step of the epoch does to the accumulator: no key is removed, and
\* the list of (d, m) is the list before the step, followed by the value the
\* step computed for m when d is the step's dataset, m is configured and the
\* computation succeeded, and by nothing otherwise
C13_StepGrows ==
    (pc = "validating" /\ ret'.op = "validation_step") =>
        LET computed == ret'.computed
            on == IF ret'.dataloader_idx \in DOMAIN val_dataset_names
                  THEN {val_dataset_names[ret'.dataloader_idx]} ELSE {}
            appended(d, m) == d \in on /\ m \in DOMAIN computed /\ computed[m].ok
        IN  /\ DOMAIN current_val_metrics \subseteq DOMAIN current_val_metrics'
            /\ \A d \in DOMAIN current_val_metrics :
                 DOMAIN current_val_metrics[d] \subseteq DOMAIN current_val_metrics'[d]
            /\ \A d \in DOMAIN current_val_metrics' :
                 \A m \in DOMAIN current_val_metrics'[d] :
                    LET before == IF d \in DOMAIN current_val_metrics
                                     /\ m \in DOMAIN current_val_metrics[d]
                                  THEN current_val_metrics[d][m] ELSE <<>>
                    IN  current_val_metrics'[d][m] =
                          IF appended(d, m) THEN before \o <<computed[m].v>>
                          ELSE before

\* C13: between on_validation_epoch_start and on_validation_epoch_end the
\* accumulator entry of (dataset, metric) is the sequence, in step order, of
\* the values this epoch's steps computed for it: empty accumulator after
\* START, keys made only by an append, never removed, lists never shorter,
\* and at most one value per configured metric appended by a step
C13_AccumulatorGrows == []C13_Lazy /\ [][C13_StepGrows]_vars

\* C13: the second step on dsA has appended 20 after the 10 of the first
C13_Witness ==
    /\ pc = "validating"
    /\ ret.op = "validation_step"
    /\ ret.kind = "return"
    /\ ret.batch_idx = 1
    /\ "psnr" \in DOMAIN ret.computed
    /\ ret.computed["psnr"] = [ok |-> TRUE, v |-> 20]
    /\ "dsA" \in DOMAIN current_val_metrics
    /\ "psnr" \in DOMAIN current_val_metrics["dsA"]
    /\ current_val_metrics["dsA"]["psnr"] = <<10, 20>>

=============================================================================
